---- MODULE Spec2Model ----
(***************************************************************************)
(* BaseTravelTimeMatrixComputer                                            *)
(* (src/src/travel_time_matrix_computer/base_travel_time_matrix_computer.py)*)
(*                                                                         *)
(* Four specifications over one set of variables:                          *)
(*   SpecCorrect  add_access_times and clean_same_same_o_d_pairs applied   *)
(*                to a batch of travel-time records;                       *)
(*   SpecPlaces   the extent and origins_destinations setters of one       *)
(*                computer object;                                         *)
(*   SpecCache    two runs in separate processes, each constructing its    *)
(*                computer (osm_history_file, then origins_destinations),  *)
(*                over one shared directory of extracts;                   *)
(*   SpecSetters  one computer, constructed and then assigned to through   *)
(*                its date, extent, osm_history_file and                   *)
(*                origins_destinations setters.                            *)
(* Each specification leaves the variables it does not use at their        *)
(* initial values.                                                         *)
(***************************************************************************)
EXTENDS FiniteSets, Integers, Sequences, TLC

VARIABLES
    \* ---- result correction
    access_walking_times,   \* self.access_walking_times: id -> walking_time
    travel_times,           \* the data frame handed through the corrections
    raw_travel_times,       \* the data frame as the routing engine returned it
    ops,                    \* the corrections applied so far, in order
    \* ---- places
    extent,                 \* self._extent
    value,                  \* the frame last assigned to origins_destinations
    origins_destinations,   \* self._origins_destinations: id -> point
    snapped_distance,       \* the "snapped_distance" column, metres
    last,                   \* the setter that ran last
    \* ---- extract cache
    computers,              \* the fields of each computer object
    pc,                     \* where each object's osm_history_file setter is
    disk,                   \* content of the extract files of the directory
    scratch,                \* per call: snapshot file, tool calls, statuses
    hist                    \* what earlier setter calls did, per cache key

vars == << access_walking_times, travel_times, raw_travel_times, ops,
           extent, value, origins_destinations, snapped_distance, last,
           computers, pc, disk, scratch, hist >>

correctVars == << travel_times, raw_travel_times, ops >>
placeVars == << extent, value, origins_destinations, snapped_distance, last >>
cacheVars == << computers, pc, disk, scratch, hist >>

(***************************************************************************)
(* Floating-point column values.  A pandas column holds numbers or NaN; a  *)
(* value is modelled as the set of the numbers it holds: {n} is the number *)
(* n and {} is NaN, so that arithmetic on NaN yields NaN.                  *)
(***************************************************************************)
NaN == {}

Num(n) == {n}

IsNumber(x) == x # NaN

\* x + y on column values (NaN if either operand is NaN)
Plus(x, y) == {a + b : a \in x, b \in y}

\* round() of a column value; walking_time holds integers (astype(int)) or NaN
Round(x) == x

(***************************************************************************)
(* Result correction                                                       *)
(***************************************************************************)
Ids == {"A", "B"}

MaxWalk == 2

MaxRows == 2

MaxOps == 2

RawTimes == {-5, 0, 12}

\* COLUMNS of a travel-time frame: from_id, to_id, travel_time
Records == [from_id : Ids, to_id : Ids, travel_time : {Num(t) : t \in RawTimes}]

Frames == UNION {[1 .. n -> Records] : n \in 1 .. MaxRows}

\* an access-time table: some of the ids, each with an integer walking time
Tables == UNION {[D -> 0 .. MaxWalk] : D \in SUBSET Ids}

\* travel_times.set_index(which_end).join(self.access_walking_times):
\* a left join, the walking_time of an id the table lacks is NaN
Join(tt, which_end, awt) ==
    [i \in DOMAIN tt |->
        [from_id |-> tt[i].from_id, to_id |-> tt[i].to_id,
         travel_time |-> tt[i].travel_time,
         walking_time |-> IF tt[i][which_end] \in DOMAIN awt
                          THEN Num(awt[tt[i][which_end]])
                          ELSE NaN]]

\* a variant without the from_id != to_id mask
AddWalkingTimeUnmasked(row) ==
    Plus(row.travel_time, Round(row.walking_time))

\* travel_times.loc[from_id != to_id, "travel_time"] += round(walking_time)
AddWalkingTime(row) ==
    IF row.from_id # row.to_id
    THEN Plus(row.travel_time, Round(row.walking_time))
    ELSE row.travel_time

\* one pass of the loop of add_access_times, ending with travel_times[COLUMNS]
AccessPass(tt, which_end, awt) ==
    LET joined == Join(tt, which_end, awt)
    IN  [i \in DOMAIN tt |->
            [from_id |-> joined[i].from_id, to_id |-> joined[i].to_id,
             travel_time |-> AddWalkingTime(joined[i])]]

\* a variant whose second pass joins on from_id again
add_access_times_from_twice(tt, awt) ==
    AccessPass(AccessPass(tt, "from_id", awt), "from_id", awt)

add_access_times(tt, awt) ==
    AccessPass(AccessPass(tt, "from_id", awt), "to_id", awt)

clean_same_same_o_d_pairs(tt) ==
    [i \in DOMAIN tt |->
        IF tt[i].from_id = tt[i].to_id
        THEN [tt[i] EXCEPT !.travel_time = Num(0)]
        ELSE tt[i]]

(***************************************************************************)
(* Places.  Geometry lives on a line of grid positions: a geometry is the  *)
(* set of positions it covers, a Point covers one, an extent may have a    *)
(* hole.  Reprojection between the working and the equidistant frame is a  *)
(* library primitive taken as exact, so one frame is modelled.  The input  *)
(* geometries are those whose centroid is a grid position.                 *)
(***************************************************************************)
MaxPos == 2

Positions == 0 .. MaxPos

RECURSIVE Sum(_)
Sum(S) == IF S = {} THEN 0 ELSE LET p == CHOOSE q \in S : TRUE
                                IN  p + Sum(S \ {p})

Geometries ==
    {g \in SUBSET Positions : Cardinality(g) \in {1, 2}
                              /\ Sum(g) % Cardinality(g) = 0}

Extents == {Positions \ H : H \in {G \in SUBSET Positions : Cardinality(G) <= 1}}

InputFrames == [Ids -> Geometries]

\* value.geometry.within(self.extent)
Within(g, e) == g \subseteq e

\* geometry.centroid
Centroid(g) == {Sum(g) \div Cardinality(g)}

\* origins_destinations.geom_type.unique().tolist() != ["Point"]
NotOnlyPoints(frame) ==
    {Cardinality(frame[id]) : id \in DOMAIN frame} # {1}

\* value[value.geometry.within(self.extent)]
WithinExtent(frame, e) ==
    [id \in {i \in DOMAIN frame : Within(frame[i], e)} |-> frame[id]]

\* use centroid if not already points
Normalize(frame) ==
    IF NotOnlyPoints(frame)
    THEN [id \in DOMAIN frame |-> Centroid(frame[id])]
    ELSE frame

\* 3.6 * 1000.0 / 60.0  (km/h -> metres/minute)
WALKING_SPEED == (36 * 100) \div 60

\* Distances are rationals [num, den] of metres; the column holds {d} or NaN.
\* What the network collaborator and the distance primitive can yield for a
\* place: no snapped point (NaN), or a distance of 0, 60 or 60.5 metres.
Distances == {[num |-> n, den |-> 2] : n \in {0, 120, 121}}

SnapOutcomes == {NaN} \cup {{d} : d \in Distances}

\* origins_destinations["snapped_distance"] / WALKING_SPEED
Divide(x, k) == {[num |-> d.num, den |-> d.den * k] : d \in x}

\* .fillna(0)
Fillna(x, v) == IF x = NaN THEN {[num |-> v, den |-> 1]} ELSE x

\* a variant that rounds down
Floor(q) == q.num \div q.den

\* numpy.ceil
Ceil(q) == -((-q.num) \div q.den)

\* .apply(numpy.ceil).astype(int)
CeilInt(x) == Ceil(CHOOSE q \in x : TRUE)

\* the "walking_time" column, minutes
walking_time(dist) == CeilInt(Fillna(Divide(dist, WALKING_SPEED), 0))

\* the origins_destinations setter; snap is what snapping yields per kept place
SetOriginsDestinations(v, snap) ==
    LET kept == WithinExtent(v, extent)
        points == Normalize(kept)
    IN  /\ DOMAIN snap = DOMAIN kept
        /\ value' = v
        /\ snapped_distance' = snap
        /\ access_walking_times' =
               [id \in DOMAIN points |-> walking_time(snap[id])]
        /\ origins_destinations' = points
        /\ last' = "origins_destinations"
        /\ UNCHANGED extent

\* the extent setter
SetExtent(e) ==
    /\ extent' = e
    /\ last' = "extent"
    /\ UNCHANGED << value, origins_destinations, snapped_distance,
                    access_walking_times >>

(***************************************************************************)
(* Extract cache.  Each process holds one computer object; the processes   *)
(* share the directory of the history file.  subprocess.run blocks, and    *)
(* the other processes run meanwhile, so the osm_history_file setter is    *)
(* cut at its two subprocess.run calls and at the moment the tool opens    *)
(* its output file.                                                        *)
(***************************************************************************)
\* An attribute that may be unset holds {} (None) or {v}
None == {}

Some(v) == {v}

The(s) == CHOOSE v \in s : TRUE

Processes == {"p1", "p2"}

\* the history files a run may be given (parent directory and stem)
Archives == {"helsinki", "tallinn"}

\* datetime values: the analysis day and an hour of that day
Dates == {[day |-> 1, hour |-> 0], [day |-> 1, hour |-> 12],
          [day |-> 2, hour |-> 0]}

\* An extent object: its geometry and the seed its hash depends on besides
\* the geometry (the object's identity, or the interpreter's per-process
\* hash seed): hash() is not specified to be a function of the geometry.
ExtentObjects == [geom : {Positions, Positions \ {1}}, seed : {0, 1}]

\* f"{self.date:%Y-%m-%dT00:00:00Z}"
osm_snapshot_datetime(date) == date.day

\* hash(self.extent)
Hash(e) == << e.geom, e.seed >>

\* osm_history_file.parent / f"{stem}_{osm_snapshot_datetime}_{hash}.osm.pbf"
osm_extract_filename(osm_history_file, date, e) ==
    [stem |-> osm_history_file, datetime |-> osm_snapshot_datetime(date),
     hash |-> Hash(e)]

Paths ==
    {osm_extract_filename(a, d, e) : a \in Archives, d \in Dates,
                                     e \in ExtentObjects}

\* what an extract is derived from: archive, snapshot day, extent geometry
\* (recorded with each call and each extraction, for the properties)
Key(osm_history_file, date, e) ==
    << osm_history_file, osm_snapshot_datetime(date), e.geom >>

Keys == {Key(a, d, e) : a \in Archives, d \in Dates, e \in ExtentObjects}

\* assignments the object of SpecSetters may receive after its construction
MaxAssign == 2

NoCall ==
    [target |-> None, key |-> None, snapshot |-> "absent", calls |-> 0,
     filter_failed |-> FALSE, extract_failed |-> FALSE, clobbered |-> FALSE,
     prior |-> None, returned |-> FALSE]

\* the assignments left to an object: those of the constructor are free
Budget(c) == IF c.constructed THEN c.budget - 1 ELSE c.budget

CanAssign(c) == c.constructed => c.budget > 0

\* osm_extract_filename.exists()
Exists(path) == disk[path] # "absent"

\* self.osm_extract_file = osm_extract_filename, and the setter returns
Return(p, path) ==
    /\ computers' = [computers EXCEPT ![p].osm_extract_file = Some(path)]
    /\ pc' = [pc EXCEPT ![p] = IF computers[p].constructed THEN "idle"
                               ELSE "ctor_od"]

\* the osm_history_file setter up to its first subprocess.run (or its end)
BeginOsmHistoryFile(p, osm_history_file) ==
    LET c == computers[p]
        path == osm_extract_filename(osm_history_file, c.date, c.extent)
        key == Key(osm_history_file, c.date, c.extent)
        call == [NoCall EXCEPT !.target = Some(path), !.key = Some(key),
                               !.prior = hist[key]]
    IN  /\ pc[p] \in {"ctor", "idle"}
        /\ CanAssign(c)
        /\ IF Exists(path)
           THEN /\ scratch' = [scratch EXCEPT ![p] =
                                  [call EXCEPT !.returned = TRUE]]
                /\ computers' = [computers EXCEPT
                                  ![p].osm_extract_file = Some(path),
                                  ![p].osm_history_file = Some(osm_history_file),
                                  ![p].budget = Budget(c)]
                /\ pc' = [pc EXCEPT ![p] = IF c.constructed THEN "idle"
                                           ELSE "ctor_od"]
           ELSE /\ scratch' = [scratch EXCEPT ![p] = call]
                /\ computers' = [computers EXCEPT
                                  ![p].osm_history_file = Some(osm_history_file),
                                  ![p].budget = Budget(c)]
                /\ pc' = [pc EXCEPT ![p] =
                            IF call.snapshot = "absent" THEN "time_filter"
                            ELSE "extract"]
        /\ UNCHANGED << disk, hist >>

\* subprocess.run(["/usr/bin/osmium", "time-filter", ...]) returns; its
\* return code is not looked at, and osmium extract is started
TimeFilterReturns(p, ok, left) ==
    /\ pc[p] = "time_filter"
    /\ left \in (IF ok THEN {"complete"} ELSE {"absent", "partial"})
    /\ scratch' = [scratch EXCEPT ![p].snapshot = left,
                                  ![p].calls = @ + 1,
                                  ![p].filter_failed = ~ok]
    /\ pc' = [pc EXCEPT ![p] = "extract"]
    /\ UNCHANGED << computers, disk, hist >>

\* osmium extract opens --output osm_extract_filename with --overwrite
ExtractOpens(p) ==
    LET path == The(scratch[p].target)
        writers == {q \in Processes \ {p} :
                       pc[q] = "extract_writing" /\ scratch[q].target = Some(path)}
    IN  /\ pc[p] = "extract"
        /\ scratch[p].snapshot # "absent"
        /\ disk' = [disk EXCEPT ![path] = "partial"]
        /\ scratch' = [q \in Processes |->
                         IF q \in writers \/ (q = p /\ writers # {})
                         THEN [scratch[q] EXCEPT !.clobbered = TRUE]
                         ELSE scratch[q]]
        /\ pc' = [pc EXCEPT ![p] = "extract_writing"]
        /\ UNCHANGED << computers, hist >>

\* what osmium extract leaves at its output path when it exits
Written(p, ok, left) ==
    IF ok
    THEN IF scratch[p].clobbered THEN "partial" ELSE "complete"
    ELSE left

\* subprocess.run(["/usr/bin/osmium", "extract", ...]) returns; its return
\* code is not looked at, and the setter ends
ExtractReturns(p, ok, left) ==
    LET path == The(scratch[p].target)
        key == The(scratch[p].key)
        content == IF pc[p] = "extract_writing" THEN Written(p, ok, left)
                   ELSE disk[path]
    IN  /\ pc[p] \in {"extract", "extract_writing"}
        /\ ok => pc[p] = "extract_writing" /\ scratch[p].snapshot = "complete"
        /\ left \in (IF pc[p] = "extract_writing" THEN {"absent", "partial"}
                     ELSE {disk[path]})
        /\ disk' = [disk EXCEPT ![path] = content]
        /\ scratch' = [scratch EXCEPT ![p].calls = @ + 1,
                                      ![p].extract_failed = ~ok,
                                      ![p].snapshot = "absent",
                                      ![p].clobbered = FALSE,
                                      ![p].returned = TRUE]
        /\ hist' = IF ok /\ content = "complete" /\ hist[key] = None
                   THEN [hist EXCEPT ![key] = Some(path)]
                   ELSE hist
        /\ Return(p, path)

\* the date setter
SetDate(p, d) ==
    /\ pc[p] = "idle"
    /\ CanAssign(computers[p])
    /\ computers' = [computers EXCEPT ![p].date = d, ![p].budget = @ - 1]
    /\ UNCHANGED << pc, disk, scratch, hist >>

\* the extent setter
SetExtentOf(p, e) ==
    /\ pc[p] = "idle"
    /\ CanAssign(computers[p])
    /\ computers' = [computers EXCEPT ![p].extent = e, ![p].budget = @ - 1]
    /\ UNCHANGED << pc, disk, scratch, hist >>

\* r5py.TransportNetwork(self.osm_extract_file, ...): what it is built from
transport_network(p) ==
    [path |-> The(computers[p].osm_extract_file),
     content |-> disk[The(computers[p].osm_extract_file)],
     key |-> Key(The(computers[p].osm_history_file), computers[p].date,
                 computers[p].extent)]

\* the origins_destinations setter, as far as the extract is concerned:
\* it snaps the places to self.transport_network
SnapToNetwork(p) ==
    /\ pc[p] \in {"ctor_od", "idle"}
    /\ CanAssign(computers[p])
    /\ computers' = [computers EXCEPT ![p].network = Some(transport_network(p)),
                                      ![p].constructed = TRUE,
                                      ![p].budget = Budget(computers[p])]
    /\ pc' = [pc EXCEPT ![p] = "idle"]
    /\ UNCHANGED << disk, scratch, hist >>

(***************************************************************************)
(* Specifications                                                          *)
(***************************************************************************)
\* a computer object at line 65: the extent is set (given by the caller, or
\* derived from the places), origins_destinations is about to be assigned
InitPlaces ==
    /\ extent \in Extents
    /\ value = << >>
    /\ origins_destinations = << >>
    /\ snapped_distance = << >>
    /\ access_walking_times = << >>
    /\ last = "__init__"

IdlePlaces ==
    /\ extent = {}
    /\ value = << >>
    /\ origins_destinations = << >>
    /\ snapped_distance = << >>
    /\ last = "none"

IdleCorrect ==
    /\ travel_times = << >>
    /\ raw_travel_times = << >>
    /\ ops = << >>

\* objects at line 64: date and extent set, no extract looked for yet;
\* each may receive n assignments once constructed
NewComputers(n) ==
    [date : Dates, extent : ExtentObjects, osm_history_file : {None},
     osm_extract_file : {None}, network : {None}, constructed : {FALSE},
     budget : {n}]

\* two runs, each constructing its computer
InitCache ==
    /\ computers \in [Processes -> NewComputers(0)]
    /\ pc = [p \in Processes |-> "ctor"]
    /\ disk = [path \in Paths |-> "absent"]
    /\ scratch = [p \in Processes |-> NoCall]
    /\ hist = [k \in Keys |-> None]

\* one run: its computer is constructed and then assigned to; the directory
\* is empty, or holds the complete extracts of earlier runs
InitSetters ==
    /\ computers \in [Processes -> NewComputers(MaxAssign)]
    /\ \A p, q \in Processes : computers[p] = computers[q]
    /\ pc = [p \in Processes |-> IF p = "p1" THEN "ctor" ELSE "none"]
    /\ disk \in {[path \in Paths |-> c] : c \in {"absent", "complete"}}
    /\ scratch = [p \in Processes |-> NoCall]
    /\ hist = [k \in Keys |-> None]

IdleCache ==
    /\ computers = << >>
    /\ pc = << >>
    /\ disk = << >>
    /\ scratch = << >>
    /\ hist = << >>

\* a batch of raw travel times and the access-time table of the object
InitCorrect ==
    /\ access_walking_times \in Tables
    /\ raw_travel_times \in Frames
    /\ travel_times = raw_travel_times
    /\ ops = << >>

AddAccessTimes ==
    /\ Len(ops) < MaxOps
    /\ travel_times' = add_access_times(travel_times, access_walking_times)
    /\ ops' = Append(ops, "add_access_times")
    /\ UNCHANGED << access_walking_times, raw_travel_times >>

CleanSameSameODPairs ==
    /\ Len(ops) < MaxOps
    /\ travel_times' = clean_same_same_o_d_pairs(travel_times)
    /\ ops' = Append(ops, "clean_same_same_o_d_pairs")
    /\ UNCHANGED << access_walking_times, raw_travel_times >>

NextCorrect ==
    \/ AddAccessTimes /\ UNCHANGED << placeVars, cacheVars >>
    \/ CleanSameSameODPairs /\ UNCHANGED << placeVars, cacheVars >>

InitOfCorrect == InitCorrect /\ IdlePlaces /\ IdleCache

SpecCorrect == InitOfCorrect /\ [][NextCorrect]_vars

AssignOriginsDestinations ==
    \E v \in InputFrames :
      \E snap \in [DOMAIN WithinExtent(v, extent) -> SnapOutcomes] :
        SetOriginsDestinations(v, snap)

AssignExtent == \E e \in Extents : SetExtent(e)

NextPlaces ==
    \/ AssignOriginsDestinations /\ UNCHANGED << correctVars, cacheVars >>
    \/ AssignExtent /\ UNCHANGED << correctVars, cacheVars >>

InitOfPlaces == InitPlaces /\ IdleCorrect /\ IdleCache

SpecPlaces == InitOfPlaces /\ [][NextPlaces]_vars

AssignOsmHistoryFile ==
    \E p \in Processes, a \in Archives : BeginOsmHistoryFile(p, a)

TimeFilterExits ==
    \E p \in Processes, ok \in BOOLEAN, left \in {"absent", "partial", "complete"} :
        TimeFilterReturns(p, ok, left)

ExtractStartsWriting == \E p \in Processes : ExtractOpens(p)

ExtractExits ==
    \E p \in Processes, ok \in BOOLEAN, left \in {"absent", "partial", "complete"} :
        ExtractReturns(p, ok, left)

AssignDate == \E p \in Processes, d \in Dates : SetDate(p, d)

AssignExtentOf == \E p \in Processes, e \in ExtentObjects : SetExtentOf(p, e)

AssignPlaces == \E p \in Processes : SnapToNetwork(p)

NextCache ==
    \/ AssignOsmHistoryFile /\ UNCHANGED << access_walking_times, correctVars, placeVars >>
    \/ TimeFilterExits /\ UNCHANGED << access_walking_times, correctVars, placeVars >>
    \/ ExtractStartsWriting /\ UNCHANGED << access_walking_times, correctVars, placeVars >>
    \/ ExtractExits /\ UNCHANGED << access_walking_times, correctVars, placeVars >>
    \/ AssignPlaces /\ UNCHANGED << access_walking_times, correctVars, placeVars >>

InitOfCache ==
    InitCache /\ IdleCorrect /\ IdlePlaces /\ access_walking_times = << >>

SpecCache == InitOfCache /\ [][NextCache]_vars

NextSetters ==
    \/ AssignOsmHistoryFile /\ UNCHANGED << access_walking_times, correctVars, placeVars >>
    \/ TimeFilterExits /\ UNCHANGED << access_walking_times, correctVars, placeVars >>
    \/ ExtractStartsWriting /\ UNCHANGED << access_walking_times, correctVars, placeVars >>
    \/ ExtractExits /\ UNCHANGED << access_walking_times, correctVars, placeVars >>
    \/ AssignDate /\ UNCHANGED << access_walking_times, correctVars, placeVars >>
    \/ AssignExtentOf /\ UNCHANGED << access_walking_times, correctVars, placeVars >>
    \/ AssignPlaces /\ UNCHANGED << access_walking_times, correctVars, placeVars >>

InitOfSetters ==
    InitSetters /\ IdleCorrect /\ IdlePlaces /\ access_walking_times = << >>

SpecSetters == InitOfSetters /\ [][NextSetters]_vars

(***************************************************************************)
(* Properties of the result correction (SpecCorrect)                       *)
(***************************************************************************)
Applied(op) == \E k \in DOMAIN ops : ops[k] = op

TimesApplied(op) == Cardinality({k \in DOMAIN ops : ops[k] = op})

\* the penalty the specification gives an id: its table entry, 0 if it has none
Penalty(id) ==
    IF id \in DOMAIN access_walking_times THEN access_walking_times[id] ELSE 0

\* C1: a record with from_id = to_id ends with travel_time 0 once
\* clean_same_same_o_d_pairs has been applied, whatever its raw value and
\* whether add_access_times ran before or after; add_access_times alone
\* leaves such a record's travel_time as it was.
C1_SameSameZero ==
    \A i \in DOMAIN travel_times :
        travel_times[i].from_id = travel_times[i].to_id =>
            travel_times[i].travel_time =
                IF Applied("clean_same_same_o_d_pairs") THEN {0}
                ELSE raw_travel_times[i].travel_time

C1_Witness ==
    /\ ops = << "clean_same_same_o_d_pairs", "add_access_times" >>
    /\ \E i \in DOMAIN travel_times :
          /\ travel_times[i].from_id = travel_times[i].to_id
          /\ raw_travel_times[i].travel_time = {-5}
          /\ Penalty(travel_times[i].from_id) > 0

\* C2: after one add_access_times, a record with from_id # to_id whose two
\* ids are keys of the access-time table has
\* travel_time = raw travel_time + AccessTime[from_id] + AccessTime[to_id].
C2_BothPenaltiesOnce ==
    TimesApplied("add_access_times") = 1 =>
        \A i \in DOMAIN travel_times :
            LET r == travel_times[i]
            IN  (/\ r.from_id # r.to_id
                 /\ r.from_id \in DOMAIN access_walking_times
                 /\ r.to_id \in DOMAIN access_walking_times)
                => r.travel_time =
                     {The(raw_travel_times[i].travel_time)
                        + access_walking_times[r.from_id]
                        + access_walking_times[r.to_id]}

C2_Witness ==
    /\ ops = << "add_access_times" >>
    /\ \E i \in DOMAIN travel_times :
          LET r == travel_times[i]
          IN  /\ r.from_id # r.to_id
              /\ DOMAIN access_walking_times = Ids
              /\ access_walking_times[r.from_id] = 1
              /\ access_walking_times[r.to_id] = 2
              /\ raw_travel_times[i].travel_time = {12}

\* C3: after one add_access_times, every record with from_id # to_id has a
\* defined travel_time, the raw value plus the penalty of each id, an id the
\* access-time table lacks counting as penalty 0.
C3_MissingIdZeroPenalty ==
    TimesApplied("add_access_times") = 1 =>
        \A i \in DOMAIN travel_times :
            LET r == travel_times[i]
            IN  r.from_id # r.to_id =>
                  /\ IsNumber(r.travel_time)
                  /\ r.travel_time =
                       {The(raw_travel_times[i].travel_time)
                          + Penalty(r.from_id) + Penalty(r.to_id)}

(***************************************************************************)
(* Properties of the places (SpecPlaces)                                   *)
(***************************************************************************)
\* the representative point of an input geometry: the point, or the centroid
Representative(g) == Centroid(g)

\* C4: the access-time table has one entry per place of the working set
\* (after an assignment: per input place that passed the extent filter);
\* an entry is the least integer n >= 0 with n * 60 >= snap distance in
\* metres, and 0 when no snapped point was found.
C4_AccessTimeIsCeiling ==
    /\ DOMAIN access_walking_times = DOMAIN origins_destinations
    /\ last = "origins_destinations" =>
          DOMAIN access_walking_times =
             {id \in DOMAIN value : Within(value[id], extent)}
    /\ \A id \in DOMAIN access_walking_times :
          LET n == access_walking_times[id]
          IN  /\ n \in Nat
              /\ snapped_distance[id] = NaN => n = 0
              /\ \A d \in snapped_distance[id] :
                    /\ n * 60 * d.den >= d.num
                    /\ n > 0 => (n - 1) * 60 * d.den < d.num

C4_Witness ==
    /\ last = "origins_destinations"
    /\ \E a, b \in DOMAIN access_walking_times :
          /\ snapped_distance[a] = {[num |-> 121, den |-> 2]}
          /\ access_walking_times[a] = 2
          /\ snapped_distance[b] = NaN
          /\ access_walking_times[b] = 0

\* C8: after origins_destinations is assigned, every place of the working
\* set has its representative point inside the extent, and an input place
\* whose representative point lies outside the extent is in neither the
\* working set nor the access-time table.
C8_RepresentativeInsideExtent ==
    last = "origins_destinations" =>
        /\ \A id \in DOMAIN origins_destinations :
              Within(origins_destinations[id], extent)
        /\ \A id \in DOMAIN value :
              ~Within(Representative(value[id]), extent) =>
                  /\ id \notin DOMAIN origins_destinations
                  /\ id \notin DOMAIN access_walking_times

(***************************************************************************)
(* Properties of the extract cache (SpecCache, SpecSetters)                *)
(***************************************************************************)
\* C5: when an extraction for a key (archive, day, extent geometry) has
\* completed with its artifact on disk before a setter call with that key
\* begins, the call runs the tool zero times and sets osm_extract_file to
\* the path of that artifact.
C5_ExtractReused ==
    \A p \in DOMAIN scratch :
        scratch[p].prior # None =>
            /\ pc[p] \notin {"time_filter", "extract", "extract_writing"}
            /\ scratch[p].calls = 0
            /\ scratch[p].returned =>
                  computers[p].osm_extract_file = scratch[p].prior

\* C6: a setter call in which a tool invocation ended with a non-success
\* status does not go on to the spatial extract and does not return with
\* osm_extract_file set.
C6_ToolFailureIsHard ==
    \A p \in DOMAIN scratch :
        /\ pc[p] \in {"extract", "extract_writing"} => ~scratch[p].filter_failed
        /\ scratch[p].returned =>
              ~(scratch[p].filter_failed \/ scratch[p].extract_failed)

\* C7: whatever exists at a final extract path is a complete extract, and
\* no transport network is built from anything else.
C7_PublishedExtractsComplete ==
    /\ \A path \in DOMAIN disk : disk[path] \in {"absent", "complete"}
    /\ \A p \in DOMAIN computers :
          \A n \in computers[p].network : n.content = "complete"

\* C9: two setter calls for the same archive, day and extent geometry have
\* the same final extract path, whichever extent objects they were given.
C9_SameGeometrySamePath ==
    \A p, q \in DOMAIN scratch :
        (scratch[p].key # None /\ scratch[p].key = scratch[q].key) =>
            scratch[p].target = scratch[q].target

\* C10: whenever no setter is running, osm_extract_file is the extract
\* path of the current archive, date and extent, and the network the
\* places were snapped to was the extract of the date and extent current
\* at that time.
C10_ExtractFollowsSetters ==
    \A p \in DOMAIN computers :
        pc[p] \in {"ctor_od", "idle"} =>
            /\ computers[p].osm_extract_file =
                  Some(osm_extract_filename(The(computers[p].osm_history_file),
                                            computers[p].date,
                                            computers[p].extent))
            /\ \A n \in computers[p].network :
                  /\ n.path.stem = n.key[1]
                  /\ n.path.datetime = n.key[2]
                  /\ n.path.hash[1] = n.key[3]

====
